---- MODULE Spec2Model ----
(***************************************************************************)
(* Model of the Sentinel Tactical API (src/main.py): the /analyze handler  *)
(* with its ByBit and Yahoo fetchers, the signal engine generate_signal,   *)
(* the mock fallback, and the /ws subscriber handler.                      *)
(*                                                                         *)
(* Numbers.  change, rsi and the mock variation are Python floats.  They   *)
(* are modelled as binary floating-point numbers with round-to-nearest,    *)
(* ties-to-even arithmetic and a significand of MantBits bits (binary64    *)
(* has 53, which does not fit TLC's integers).  A value v is held as the   *)
(* integer v * Scale.  Prices are held in thousandths.                     *)
(* Text.  Asset names are sequences of one-character strings, so that      *)
(* upper() and replace() can be computed character by character.           *)
(***************************************************************************)
EXTENDS Integers, Sequences, FiniteSets, TLC

VARIABLES
    pc,          \* position of the /analyze call: idle, spot, linear, yahoo, done
    asset,       \* the path parameter of the /analyze call
    requests,    \* upstream requests issued by the call, in order
    responses,   \* upstream responses received by the call, in order
    result,      \* the value returned by the call
    gs_call,     \* arguments of the call's generate_signal invocation
    ws_clients,  \* the list ws_clients
    handler,     \* per connection: position of websocket_endpoint
    outbox,      \* per connection: types of the messages sent to it
    price_cache  \* the dict price_cache

vars == <<pc, asset, requests, responses, result, gs_call,
          ws_clients, handler, outbox, price_cache>>

analyzeVars == <<pc, asset, requests, responses, result, gs_call>>
wsVars == <<ws_clients, handler, outbox, price_cache>>

----------------------------------------------------------------------------
(* Bounds *)

MantBits == 8      \* significand bits of the modelled float format
MaxSent == 2       \* messages recorded per connection
NumConns == 3      \* websocket connections
Spread == 2        \* floats sampled to each side of a threshold

----------------------------------------------------------------------------
(* Floating point *)

Scale == 2 ^ (MantBits + 5)

Abs(x) == IF x < 0 THEN 0 - x ELSE x

\* n / d rounded to the nearest integer, ties to even (n >= 0, d > 0)
RoundHalfEven(n, d) ==
    LET q == n \div d
        r == n % d
    IN  IF 2 * r < d THEN q
        ELSE IF 2 * r > d THEN q + 1
        ELSE q + (q % 2)

RECURSIVE UlpOf(_, _, _)
\* spacing of the floats around n / d: the least power of two u with n/d < u * 2^MantBits
UlpOf(n, d, u) == IF n < d * u * (2 ^ MantBits) THEN u ELSE UlpOf(n, d, 2 * u)

\* the float nearest to the rational n / d (d > 0)
Fl(n, d) ==
    LET a == Abs(n)
        u == UlpOf(a, d, 1)
        m == u * RoundHalfEven(a, d * u)
    IN  IF n < 0 THEN 0 - m ELSE m

IsFloat(x) == Fl(x, 1) = x

\* the float c and its neighbours, w to each side, at the spacing of the floats at c
Neighbours(c, w) == {c + k * UlpOf(Abs(c), 1, 1) : k \in (0 - w)..w}

\* round(x, 1) and round(x, 2): the result in tenths and in hundredths
Round1(x) == IF x < 0 THEN 0 - RoundHalfEven((0 - x) * 10, Scale)
             ELSE RoundHalfEven(x * 10, Scale)
Round2(x) == IF x < 0 THEN 0 - RoundHalfEven((0 - x) * 100, Scale)
             ELSE RoundHalfEven(x * 100, Scale)

----------------------------------------------------------------------------
(* Text *)

Lower == <<"a","b","c","d","e","f","g","h","i","j","k","l","m",
           "n","o","p","q","r","s","t","u","v","w","x","y","z">>
UpperCase == <<"A","B","C","D","E","F","G","H","I","J","K","L","M",
               "N","O","P","Q","R","S","T","U","V","W","X","Y","Z">>

UpperChar(c) ==
    IF \E i \in 1..26 : Lower[i] = c
    THEN UpperCase[CHOOSE i \in 1..26 : Lower[i] = c]
    ELSE c

\* str.upper()
upper(s) == [i \in 1..Len(s) |-> UpperChar(s[i])]

RECURSIVE replace(_, _)
\* str.replace(old, ""): every non-overlapping occurrence of old, left to right
replace(s, old) ==
    IF Len(s) < Len(old) THEN s
    ELSE IF SubSeq(s, 1, Len(old)) = old
         THEN replace(SubSeq(s, Len(old) + 1, Len(s)), old)
         ELSE <<Head(s)>> \o replace(Tail(s), old)

\* asset.upper().replace("/", "").replace("%2F", "").replace("%2f", "")
Normalize(a) ==
    replace(replace(replace(upper(a), <<"/">>), <<"%","2","F">>), <<"%","2","f">>)

----------------------------------------------------------------------------
(* Pair tables *)

BTCUSDT == <<"B","T","C","U","S","D","T">>
ETHUSDT == <<"E","T","H","U","S","D","T">>
SOLUSDT == <<"S","O","L","U","S","D","T">>
XRPUSDT == <<"X","R","P","U","S","D","T">>
ADAUSDT == <<"A","D","A","U","S","D","T">>
DOGEUSDT == <<"D","O","G","E","U","S","D","T">>
LTCUSDT == <<"L","T","C","U","S","D","T">>
LINKUSDT == <<"L","I","N","K","U","S","D","T">>
EURUSD == <<"E","U","R","U","S","D">>
GBPUSD == <<"G","B","P","U","S","D">>
USDJPY == <<"U","S","D","J","P","Y">>
AUDUSD == <<"A","U","D","U","S","D">>
USDCAD == <<"U","S","D","C","A","D">>
NZDUSD == <<"N","Z","D","U","S","D">>
USDCHF == <<"U","S","D","C","H","F">>
EURGBP == <<"E","U","R","G","B","P">>
XAUUSD == <<"X","A","U","U","S","D">>
XAGUSD == <<"X","A","G","U","S","D">>
USOIL == <<"U","S","O","I","L">>

\* the keys of each dict, in insertion order (every value equals its key)
BYBIT_PAIRS == <<BTCUSDT, ETHUSDT, SOLUSDT, XRPUSDT, ADAUSDT, DOGEUSDT, LTCUSDT, LINKUSDT>>
FOREX_PAIRS == <<EURUSD, GBPUSD, USDJPY, AUDUSD, USDCAD, NZDUSD, USDCHF, EURGBP>>
COMMODITY_PAIRS == <<XAUUSD, XAGUSD, USOIL>>

Keys(d) == {d[i] : i \in 1..Len(d)}

\* {**BYBIT_PAIRS, **FOREX_PAIRS, **COMMODITY_PAIRS}
all_pairs == BYBIT_PAIRS \o FOREX_PAIRS \o COMMODITY_PAIRS

----------------------------------------------------------------------------
(* Signal engine *)

None == [none |-> TRUE]
Now == "datetime.now().isoformat()"

\* values of a JSON payload: a number, null, a non-numeric string, or a missing key
Num(n) == [num |-> n]
Null == [null |-> TRUE]
Str == [str |-> "n/a"]
Absent == [absent |-> TRUE]
IsNum(v) == "num" \in DOMAIN v

\* a dict with the given optional keys
Field(name, v) == IF v = Absent THEN <<>> ELSE (name :> v)
\* dict.get(key, default)
Get(d, key, default) == IF key \in DOMAIN d THEN d[key] ELSE default

\* the lower bound forgotten
ClampMut(x) == IF x < 100 * Scale THEN x ELSE 100 * Scale

\* max(0, min(100, x))
Clamp(x) ==
    LET m == IF x < 100 * Scale THEN x ELSE 100 * Scale
    IN  IF m > 0 THEN m ELSE 0

\* the factor 2 dropped
PseudoRsiMut(change) == Clamp(Fl(50 * Scale - change, 1))

\* rsi = 50 - (change * 2); rsi = max(0, min(100, rsi))
PseudoRsi(change) == Clamp(Fl(50 * Scale - 2 * change, 1))

\* the confluence count in halves: += 1 is 2, += 0.5 is 1
RsiConfluence(rsi) ==
    IF rsi < 30 * Scale THEN 2
    ELSE IF rsi > 70 * Scale THEN 2
    ELSE 0

MoveConfluence(change) ==
    IF Abs(change) > 2 * Scale THEN 2
    ELSE IF Abs(change) > 1 * Scale THEN 1
    ELSE 0

Confluences(rsi, change) == RsiConfluence(rsi) + MoveConfluence(change)

Reasons(rsi, change) ==
    (IF rsi < 30 * Scale THEN <<[text |-> "RSI sobrevendido (<30)", pct |-> 0]>>
     ELSE IF rsi > 70 * Scale THEN <<[text |-> "RSI sobrecomprado (>70)", pct |-> 0]>>
     ELSE <<>>)
    \o
    (IF Abs(change) > 2 * Scale
     THEN <<[text |-> "Movimento forte 24h", pct |-> Round2(change)]>>
     ELSE IF Abs(change) > 1 * Scale
     THEN <<[text |-> "Movimento moderado 24h", pct |-> Round2(change)]>>
     ELSE <<>>)

\* > in place of >= on the FORTE branch
TierOfMut(confluences) ==
    IF confluences > 4 THEN "FORTE"
    ELSE IF confluences >= 2 THEN "MODERADO"
    ELSE "FRACO"

TierOf(confluences) ==
    IF confluences >= 4 THEN "FORTE"
    ELSE IF confluences >= 2 THEN "MODERADO"
    ELSE "FRACO"

Direction(rsi) == IF rsi < 50 * Scale THEN "CALL" ELSE "PUT"

SignalOf(price, change, rsi) ==
    LET confluences == Confluences(rsi, change)
    IN  IF confluences >= 4
        THEN [direction |-> Direction(rsi), entry |-> price, expiration |-> 5,
              reasons |-> Reasons(rsi, change)]
        ELSE IF confluences >= 2
        THEN [direction |-> Direction(rsi), entry |-> price, expiration |-> 5,
              note |-> "Aguardar confirmação adicional",
              reasons |-> Reasons(rsi, change)]
        ELSE None

generate_signal(a, price, change, rsi, source) ==
    [asset |-> a,
     price |-> price,
     tier |-> TierOf(Confluences(rsi, change)),
     indicators |-> [rsi |-> Round1(rsi), change_24h |-> Round2(change), source |-> source],
     signal |-> SignalOf(price, change, rsi),
     timestamp |-> Now]

----------------------------------------------------------------------------
(* ByBit fetcher *)

\* float(ticker.get("lastPrice", ticker.get("markPrice", 0)))
RawPrice(ticker) == Get(ticker, "lastPrice", Get(ticker, "markPrice", Num(0)))
\* float(ticker.get("price24hPcnt", 0))
RawPcnt(ticker) == Get(ticker, "price24hPcnt", Num(0))

\* neither float() raises
TickerParses(ticker) == IsNum(RawPrice(ticker)) /\ IsNum(RawPcnt(ticker))

\* change = float(...) * 100
TickerChange(ticker) == Fl(RawPcnt(ticker).num * 100, 1)

process_ticker_data(ticker, a, source) ==
    IF TickerParses(ticker)
    THEN generate_signal(a, RawPrice(ticker), TickerChange(ticker),
                         PseudoRsi(TickerChange(ticker)), source)
    ELSE [asset |-> a, status |-> "error",
          message |-> [text |-> "Erro ao processar dados"],
          raw_data |-> ticker]

IsException(resp) == "exception" \in DOMAIN resp

\* and in place of or
NoDataMut(data) == data.retCode # 0 /\ data.list = <<>>

\* data.get("retCode") != 0 or not data.get("result", {}).get("list")
NoData(data) == data.retCode # 0 \/ data.list = <<>>

\* data.get("retCode") == 0 and data.get("result", {}).get("list")
HasData(data) == data.retCode = 0 /\ data.list # <<>>

\* the tail of fetch_bybit_data, on the data it ends up with
BybitResult(data, symbol, a) ==
    IF HasData(data)
    THEN process_ticker_data(data.list[1], a, "bybit")
    ELSE [asset |-> a, status |-> "error",
          message |-> [text |-> "não encontrado na ByBit", symbol |-> symbol],
          api_response |-> data]

\* the except clause of analyze
ExceptionResult(a, e) ==
    [asset |-> a, status |-> "error", message |-> [text |-> "str(e)", e |-> e]]

\* the early return of analyze for a symbol in none of the tables
UnsupportedResult(a) ==
    [asset |-> a, status |-> "error",
     message |-> [text |-> "não suportado. Use:", asset |-> a, use |-> all_pairs]]

BybitRequest(category, symbol) ==
    [host |-> "api.bybit.com", category |-> category, symbol |-> symbol]

----------------------------------------------------------------------------
(* Yahoo fetcher and mock fallback *)

get_yahoo_symbol(symbol) ==
    IF symbol \in {EURUSD, GBPUSD, USDJPY, AUDUSD, USDCAD, NZDUSD, USDCHF}
    THEN symbol \o <<"=", "X">>
    ELSE IF symbol = XAUUSD THEN <<"G", "C", "=", "F">>
    ELSE IF symbol = XAGUSD THEN <<"S", "I", "=", "F">>
    ELSE IF symbol = USOIL THEN <<"C", "L", "=", "F">>
    ELSE symbol

YahooRequest(symbol) ==
    [host |-> "query1.finance.yahoo.com", symbol |-> get_yahoo_symbol(symbol)]

\* Python truthiness of a payload value
Truthy(v) == IF IsNum(v) THEN v.num # 0 ELSE v = Str

\* price = meta.get("regularMarketPrice", 0)
YahooPrice(meta) == Get(meta, "regularMarketPrice", Num(0))
\* prev_close = meta.get("previousClose", price)
YahooPrevClose(meta) == Get(meta, "previousClose", YahooPrice(meta))

\* the response carries chart.result[0].meta and the arithmetic raises no TypeError
YahooUsable(resp) ==
    /\ ~IsException(resp)
    /\ resp.result # <<>>
    /\ "meta" \in DOMAIN resp.result[1]
    /\ LET meta == resp.result[1].meta
       IN  Truthy(YahooPrevClose(meta)) =>
              IsNum(YahooPrice(meta)) /\ IsNum(YahooPrevClose(meta))

\* change = ((price - prev_close) / prev_close * 100) if prev_close else 0
\* (the difference of two prices in thousandths is taken exactly; the quotient
\* and the product are rounded)
YahooChange(meta) ==
    IF Truthy(YahooPrevClose(meta))
    THEN LET price == YahooPrice(meta).num
             prev == YahooPrevClose(meta).num
             ratio == IF prev > 0 THEN Fl((price - prev) * Scale, prev)
                      ELSE Fl((prev - price) * Scale, 0 - prev)
         IN  Fl(ratio * 100, 1)
    ELSE 0

\* base_prices, in thousandths
base_prices(symbol) ==
    IF symbol = EURUSD THEN 1085
    ELSE IF symbol = GBPUSD THEN 1265
    ELSE IF symbol = USDJPY THEN 149500
    ELSE IF symbol = AUDUSD THEN 655
    ELSE IF symbol = USDCAD THEN 1355
    ELSE IF symbol = NZDUSD THEN 615
    ELSE IF symbol = USDCHF THEN 885
    ELSE IF symbol = XAUUSD THEN 2030000
    ELSE IF symbol = XAGUSD THEN 23500
    ELSE IF symbol = USOIL THEN 78500
    ELSE 100000

\* uniform(-0.03, 0.03)
MockVariationsMut ==
    LET bound == Fl(3 * Scale, 100)
    IN  {v \in (0 - bound)..bound : IsFloat(v)}

\* the floats random.uniform(-0.02, 0.02) can return
MockVariations ==
    LET bound == Fl(2 * Scale, 100)
    IN  {v \in (0 - bound)..bound : IsFloat(v)}

\* change = variation * 100
MockChange(variation) == Fl(variation * 100, 1)

\* price = base * (1 + variation), to the nearest thousandth
MockPrice(symbol, variation) ==
    LET base == base_prices(symbol)
    IN  IF variation < 0
        THEN base - RoundHalfEven(base * (0 - variation), Scale)
        ELSE base + RoundHalfEven(base * variation, Scale)

generate_mock_data(symbol, a, variation) ==
    generate_signal(a, Num(MockPrice(symbol, variation)), MockChange(variation),
                    PseudoRsi(MockChange(variation)), "mock")
      @@ [note |-> "Dados simulados - API indisponível"]

----------------------------------------------------------------------------
(* The /analyze handler *)

NoResult == [pending |-> TRUE]
NoCall == [called |-> FALSE]
Call(rsi, change) == [called |-> TRUE, rsi |-> rsi, change |-> change]

\* path parameters tried: registered names in several spellings, and unknown ones
AssetInputs ==
    { BTCUSDT,
      <<"b","t","c","u","s","d","t">>,
      <<"B","T","C","/","U","S","D","T">>,
      <<"e","t","h","%","2","f","u","s","d","t">>,
      <<"%","2","/","F","S","O","L","U","S","D","T">>,
      EURUSD,
      <<"e","u","r","/","u","s","d">>,
      EURGBP,
      XAUUSD,
      <<"u","s","%","2","F","o","i","l">>,
      <<"X","Y","Z","/","A","B","C">>,
      <<"B","T","C">>,
      <<>> }

Thresholds == {0, 1, 2, 10, 25}

\* price24hPcnt values whose change falls around every threshold of the code
PcntSamples ==
    UNION {Neighbours(Fl(t * Scale, 100), Spread) \cup Neighbours(0 - Fl(t * Scale, 100), Spread)
             : t \in Thresholds}
    \cup {4 * Scale, 0 - 4 * Scale}

Tickers ==
    {Field("lastPrice", lp) @@ Field("markPrice", mp) @@ Field("price24hPcnt", pcnt) :
        lp \in {Absent, Str, Num(0), Num(50000000)},
        mp \in {Absent, Str, Num(49990000)},
        pcnt \in {Absent, Str} \cup {Num(x) : x \in PcntSamples}}

Exceptions ==
    {[exception |-> e] : e \in {"ConnectError", "ReadTimeout", "JSONDecodeError"}}

BybitResponses ==
    Exceptions
    \cup {[retCode |-> 0, list |-> <<t>>] : t \in Tickers}
    \cup {[retCode |-> 0, list |-> <<>>],
          [retCode |-> 10001, list |-> <<>>],
          [retCode |-> 10001, list |-> <<[lastPrice |-> Num(50000000)]>>]}

YahooPrices ==
    {Absent, Null, Str, Num(0)}
    \cup {Num(1000 + 10 * t + k) : t \in Thresholds, k \in {0 - 1, 0, 1}}
    \cup {Num(1000 - 10 * t + k) : t \in Thresholds, k \in {0 - 1, 0, 1}}

YahooMeta(p, prev) == Field("regularMarketPrice", p) @@ Field("previousClose", prev)

YahooResponses ==
    Exceptions
    \cup {[result |-> <<>>], [result |-> <<[timestamp |-> <<>>]>>]}
    \cup {[result |-> <<[meta |-> YahooMeta(p, prev)]>>] :
            p \in YahooPrices, prev \in {Absent, Null, Num(0), Num(1000)}}
    \cup {[result |-> <<[meta |-> YahooMeta(Num(1000), Str)]>>],
          [result |-> <<[meta |-> YahooMeta(Num(1000), Num(0 - 1000))]>>]}

AnalyzeIdle ==
    /\ pc = "idle" /\ asset = <<>> /\ requests = <<>> /\ responses = <<>>
    /\ result = NoResult /\ gs_call = NoCall

\* analyze up to its first await
Analyze(a) ==
    /\ pc = "idle"
    /\ asset' = a
    /\ responses' = <<>>
    /\ gs_call' = NoCall
    /\ LET symbol == Normalize(a)
       IN  IF symbol \notin Keys(all_pairs)
           THEN /\ result' = UnsupportedResult(a)
                /\ requests' = <<>>
                /\ pc' = "done"
           ELSE IF symbol \in Keys(BYBIT_PAIRS)
           THEN /\ result' = NoResult
                /\ requests' = <<BybitRequest("spot", symbol)>>
                /\ pc' = "spot"
           ELSE /\ result' = NoResult
                /\ requests' = <<YahooRequest(symbol)>>
                /\ pc' = "yahoo"
    /\ UNCHANGED wsVars

\* generate_signal is reached from process_ticker_data
BybitCall(data) ==
    IF HasData(data) /\ TickerParses(data.list[1])
    THEN Call(PseudoRsi(TickerChange(data.list[1])), TickerChange(data.list[1]))
    ELSE NoCall

\* fetch_bybit_data from the spot response to its next await or its return
SpotResponse(resp) ==
    /\ pc = "spot"
    /\ responses' = Append(responses, resp)
    /\ IF IsException(resp)
       THEN /\ result' = ExceptionResult(asset, resp.exception)
            /\ pc' = "done"
            /\ UNCHANGED <<requests, gs_call>>
       ELSE IF NoData(resp)
       THEN /\ requests' = Append(requests, BybitRequest("linear", Normalize(asset)))
            /\ pc' = "linear"
            /\ UNCHANGED <<result, gs_call>>
       ELSE /\ result' = BybitResult(resp, Normalize(asset), asset)
            /\ gs_call' = BybitCall(resp)
            /\ pc' = "done"
            /\ UNCHANGED requests
    /\ UNCHANGED <<asset, wsVars>>

\* fetch_bybit_data from the linear response to its return
LinearResponse(resp) ==
    /\ pc = "linear"
    /\ responses' = Append(responses, resp)
    /\ IF IsException(resp)
       THEN /\ result' = ExceptionResult(asset, resp.exception)
            /\ gs_call' = NoCall
       ELSE /\ result' = BybitResult(resp, Normalize(asset), asset)
            /\ gs_call' = BybitCall(resp)
    /\ pc' = "done"
    /\ UNCHANGED <<asset, requests, wsVars>>

\* fetch_forex_data from the Yahoo response to its return
YahooResponse(resp) ==
    /\ pc = "yahoo"
    /\ responses' = Append(responses, resp)
    /\ \/ /\ YahooUsable(resp)
          /\ LET meta == resp.result[1].meta
                 change == YahooChange(meta)
             IN  /\ result' = generate_signal(asset, YahooPrice(meta), change,
                                              PseudoRsi(change), "yahoo")
                 /\ gs_call' = Call(PseudoRsi(change), change)
       \/ /\ ~YahooUsable(resp)
          /\ \E variation \in MockVariations :
                /\ result' = generate_mock_data(Normalize(asset), asset, variation)
                /\ gs_call' = Call(PseudoRsi(MockChange(variation)), MockChange(variation))
    /\ pc' = "done"
    /\ UNCHANGED <<asset, requests, wsVars>>

\* the response has been sent; the next request may arrive
Respond ==
    /\ pc = "done"
    /\ pc' = "idle" /\ asset' = <<>> /\ requests' = <<>> /\ responses' = <<>>
    /\ result' = NoResult /\ gs_call' = NoCall
    /\ UNCHANGED wsVars

----------------------------------------------------------------------------
(* The /ws handler *)

Conns == 1..NumConns

\* texts a client sends: a subscribe request, another JSON object, JSON that is
\* not an object, and text that is not JSON
Inbound == {"subscribe", "object", "array", "garbage"}

\* outcomes of send_json: delivered, or the connection is gone and the
\* framework raises WebSocketDisconnect or another exception
SendOutcomes == {"ok", "WebSocketDisconnect", "RuntimeError"}

\* list.remove(x)
Remove(list, x) == SelectSeq(list, LAMBDA y : y # x)

Record(box, type) == IF Len(box) < MaxSent THEN Append(box, type) ELSE box

\* websocket_endpoint up to its first receive_text
Connect(c) ==
    /\ handler[c] = "new"
    /\ ws_clients' = Append(ws_clients, c)
    /\ handler' = [handler EXCEPT ![c] = "open"]
    /\ UNCHANGED <<outbox, price_cache, analyzeVars>>

\* one iteration of the loop on a received text
Receive(c, text, sent) ==
    /\ handler[c] = "open"
    /\ IF text \in {"garbage", "array"}
       THEN \* json.loads or message.get raises: the handler ends in the exception
            /\ handler' = [handler EXCEPT ![c] = "ended"]
            /\ UNCHANGED <<ws_clients, outbox>>
       ELSE IF text = "object"
       THEN UNCHANGED <<handler, ws_clients, outbox>>
       ELSE IF sent = "ok"
       THEN /\ outbox' = [outbox EXCEPT ![c] = Record(@, "subscribed")]
            /\ UNCHANGED <<handler, ws_clients>>
       ELSE IF sent = "WebSocketDisconnect"
       THEN /\ ws_clients' = Remove(ws_clients, c)
            /\ handler' = [handler EXCEPT ![c] = "ended"]
            /\ UNCHANGED outbox
       ELSE /\ handler' = [handler EXCEPT ![c] = "ended"]
            /\ UNCHANGED <<ws_clients, outbox>>
    /\ UNCHANGED <<price_cache, analyzeVars>>

\* receive_text raises WebSocketDisconnect
Disconnect(c) ==
    /\ handler[c] = "open"
    /\ ws_clients' = Remove(ws_clients, c)
    /\ handler' = [handler EXCEPT ![c] = "ended"]
    /\ UNCHANGED <<outbox, price_cache, analyzeVars>>

WsIdle ==
    /\ ws_clients = <<>>
    /\ handler = [c \in Conns |-> "new"]
    /\ outbox = [c \in Conns |-> <<>>]
    /\ price_cache = <<>>

----------------------------------------------------------------------------
(* generate_signal as a pure function of (rsi, change) *)

SignalThresholds == {0, 1, 2, 10, 25, 30, 50, 70, 100}


\* floats around every threshold of the code, of both signs
SampleFloats ==
    UNION {Neighbours(t * Scale, Spread) \cup Neighbours(0 - t * Scale, Spread)
             : t \in SignalThresholds}

SignalInit ==
    /\ pc = "idle" /\ asset = <<>> /\ requests = <<>> /\ responses = <<>>
    /\ result = NoResult
    /\ WsIdle
    /\ \E r \in SampleFloats, c \in SampleFloats :
          gs_call = [called |-> FALSE, rsi |-> r, change |-> c]

ApplySignal ==
    /\ ~gs_call.called
    /\ gs_call' = [gs_call EXCEPT !.called = TRUE]
    /\ result' = generate_signal(BTCUSDT, Num(50000000), gs_call.change, gs_call.rsi, "bybit")
    /\ UNCHANGED <<pc, asset, requests, responses, wsVars>>

SignalNext == ApplySignal

----------------------------------------------------------------------------
(* Specification of the /analyze endpoint *)

AnalyzeInit == AnalyzeIdle /\ WsIdle

AnalyzeNext ==
    \/ \E a \in AssetInputs : Analyze(a)
    \/ \E resp \in BybitResponses : SpotResponse(resp)
    \/ \E resp \in BybitResponses : LinearResponse(resp)
    \/ \E resp \in YahooResponses : YahooResponse(resp)
    \/ Respond

AnalyzeSpec == AnalyzeInit /\ [][AnalyzeNext]_vars

----------------------------------------------------------------------------
(* Specification of the /ws endpoint and the module state *)

WsInit == AnalyzeIdle /\ WsIdle

WsNext ==
    \/ \E c \in Conns : Connect(c)
    \/ \E c \in Conns, text \in Inbound, sent \in SendOutcomes : Receive(c, text, sent)
    \/ \E c \in Conns : Disconnect(c)

WsSpec == WsInit /\ [][WsNext]_vars

\* the event loop runs every handler step whose input is available
FairWsSpec ==
    /\ WsSpec
    /\ \A c \in Conns : WF_vars(Connect(c))
    /\ \A c \in Conns : WF_vars(\E text \in Inbound, sent \in SendOutcomes : Receive(c, text, sent))
    /\ \A c \in Conns : WF_vars(Disconnect(c))

SignalSpec == SignalInit /\ [][SignalNext]_vars

----------------------------------------------------------------------------
(* Properties *)

IsError(r) == "status" \in DOMAIN r /\ r.status = "error"
IsSignal(r) == "tier" \in DOMAIN r
Registered == Normalize(asset) \in Keys(all_pairs)
Crypto == Normalize(asset) \in Keys(BYBIT_PAIRS)
Range(seq) == {seq[i] : i \in 1..Len(seq)}

\* a ByBit response that carries a ticker
Yielded(resp) == ~IsException(resp) /\ resp.retCode = 0 /\ resp.list # <<>>

\* C1: for every registered instrument and every upstream outcome, /analyze
\* returns a signal result, never a status "error" result, and the result is
\* tagged "mock" when every provider request failed or had no data.
C1_NeverFails ==
    pc = "done" /\ Registered =>
        /\ ~IsError(result)
        /\ IsSignal(result)
        /\ (\A i \in 1..Len(responses) :
               IsException(responses[i])
               \/ (Crypto /\ ~Yielded(responses[i]))
               \/ (~Crypto /\ ~YahooUsable(responses[i])))
           => result.indicators.source = "mock"

\* C2: an unregistered name is rejected without any upstream request, with
\* an error {asset, status, message, available} whose 'available' is the
\* non-empty list of all known names.
C2_UnknownRejected ==
    pc = "done" /\ ~Registered =>
        /\ requests = <<>>
        /\ IsError(result)
        /\ result.asset = asset
        /\ "message" \in DOMAIN result
        /\ "available" \in DOMAIN result
        /\ result.available # <<>>
        /\ Range(result.available) = Keys(all_pairs)

\* C3: every non-error result carries a price strictly greater than 0.
C3_PricePositive ==
    pc = "done" /\ IsSignal(result) =>
        IsNum(result.price) /\ result.price.num > 0

\* C4: for a crypto instrument spot is requested first, linear is requested
\* exactly when the spot request completed without data, and the result is
\* built from the first category that returned data.
C4_SpotBeforeLinear ==
    pc # "idle" /\ Crypto =>
        /\ Len(requests) \in {1, 2}
        /\ requests[1].category = "spot"
        /\ Len(requests) = 2 =>
              /\ requests[2].category = "linear"
              /\ Len(responses) >= 1
              /\ ~IsException(responses[1])
              /\ ~Yielded(responses[1])
        /\ (Len(responses) >= 1 /\ ~IsException(responses[1]) /\ ~Yielded(responses[1]))
              => Len(requests) = 2
        /\ (pc = "done" /\ Yielded(responses[1]))
              => result = process_ticker_data(responses[1].list[1], asset, "bybit")
        /\ (pc = "done" /\ Len(responses) = 2 /\ Yielded(responses[2]))
              => result = process_ticker_data(responses[2].list[1], asset, "bybit")

\* C4 witness: spot had no data, linear had, and the signal comes from linear
C4_Witness ==
    /\ pc = "done" /\ Crypto
    /\ Len(responses) = 2
    /\ ~Yielded(responses[1]) /\ Yielded(responses[2])
    /\ IsSignal(result)
    /\ result.price = RawPrice(responses[2].list[1])

\* C5: a connection is in ws_clients exactly while its handler is live.
C5_LiveOnly ==
    \A c \in Conns : (c \in Range(ws_clients)) <=> (handler[c] = "open")

\* C6: after startup the price cache eventually holds an entry for every
\* registered instrument, and every connected subscriber eventually receives
\* a "prices" message.
C6_PollerFillsCache ==
    /\ <>(\A k \in Keys(all_pairs) : k \in DOMAIN price_cache)
    /\ \A c \in Conns :
          [](handler[c] = "open" => <>("prices" \in Range(outbox[c])))

\* the confluence count of the specification, in halves
C7_Confluence(rsi, change) ==
    (IF rsi < 30 * Scale \/ rsi > 70 * Scale THEN 2 ELSE 0)
    + (IF Abs(change) > 2 * Scale THEN 2 ELSE IF Abs(change) > Scale THEN 1 ELSE 0)

\* C7: for every (rsi, change24h), confluence >= 2 gives FORTE, confluence in
\* [1, 2) gives MODERADO, confluence < 1 gives FRACO; the signal is none
\* exactly when the tier is FRACO; otherwise the direction is CALL iff
\* rsi < 50 and the expiration is 5.
C7_TierBySignal ==
    gs_call.called =>
        LET k == C7_Confluence(gs_call.rsi, gs_call.change)
        IN  /\ k >= 4 => result.tier = "FORTE"
            /\ (k >= 2 /\ k < 4) => result.tier = "MODERADO"
            /\ k < 2 => result.tier = "FRACO"
            /\ (result.signal = None) <=> (result.tier = "FRACO")
            /\ result.tier # "FRACO" =>
                  /\ (result.signal.direction = "CALL") <=> (gs_call.rsi < 50 * Scale)
                  /\ result.signal.direction \in {"CALL", "PUT"}
                  /\ result.signal.expiration = 5

\* C7 witness: an oversold rsi with a strong move gives FORTE / CALL
C7_Witness ==
    /\ gs_call.called
    /\ gs_call.rsi < 30 * Scale /\ Abs(gs_call.change) > 2 * Scale
    /\ result.tier = "FORTE"
    /\ result.signal.direction = "CALL"

\* clamp(50 - 2 * change, 0, 100) in exact arithmetic
ExactRsi(change) ==
    LET x == 50 * Scale - 2 * change
    IN  IF x < 0 THEN 0 ELSE IF x > 100 * Scale THEN 100 * Scale ELSE x

\* the largest rounding error of a float below 128
RoundingError == (128 * Scale) \div (2 ^ (MantBits + 1))

\* C8 as stated: the rsi passed to generate_signal and the rsi reported under
\* indicators both equal clamp(50 - 2 * change24h, 0, 100), as the program's
\* arithmetic evaluates it, and lie in [0, 100].
C8_RsiIsClamp ==
    gs_call.called =>
        /\ Abs(gs_call.rsi - ExactRsi(gs_call.change)) <= RoundingError
        /\ result.indicators.rsi * Scale = 10 * gs_call.rsi
        /\ gs_call.rsi >= 0 /\ gs_call.rsi <= 100 * Scale

\* C8 amended: the rsi passed to generate_signal is clamp(50 - 2 * change24h,
\* 0, 100) up to one floating-point rounding and lies in [0, 100]; the rsi
\* reported under indicators is that value rounded to one decimal, within
\* 0.05 of it, and lies in [0, 100].
C8_RsiIsRoundedClamp ==
    gs_call.called =>
        /\ gs_call.rsi >= 0 /\ gs_call.rsi <= 100 * Scale
        /\ Abs(gs_call.rsi - ExactRsi(gs_call.change)) <= RoundingError
        /\ result.indicators.rsi >= 0 /\ result.indicators.rsi <= 1000
        /\ 2 * Abs(result.indicators.rsi * Scale - 10 * gs_call.rsi) <= Scale

\* C8 witness: an extreme move, clamped at 0, reported as 0.0
C8_Witness ==
    /\ pc = "done" /\ gs_call.called
    /\ gs_call.change > 25 * Scale
    /\ gs_call.rsi = 0
    /\ result.indicators.rsi = 0

\* C9: every result of generate_mock_data has tier FRACO and signal none,
\* with |change24h| <= 2 and rsi in [46, 54]; a forex or commodity instrument
\* whose upstream is down never gets a CALL or PUT.
C9_MockNeverAdvises ==
    /\ (pc = "done" /\ IsSignal(result) /\ result.indicators.source = "mock") =>
          /\ result.tier = "FRACO"
          /\ result.signal = None
          /\ Abs(gs_call.change) <= 2 * Scale
          /\ gs_call.rsi >= 46 * Scale /\ gs_call.rsi <= 54 * Scale
    /\ (pc = "done" /\ Registered /\ ~Crypto
          /\ (IsException(responses[1]) \/ responses[1].result = <<>>)) =>
          /\ IsSignal(result)
          /\ result.indicators.source = "mock"
          /\ result.signal = None

\* C9 witness: the largest perturbation, +2%, after an upstream failure
C9_Witness ==
    /\ pc = "done" /\ IsSignal(result)
    /\ IsException(responses[1])
    /\ result.indicators.source = "mock"
    /\ gs_call.change = 2 * Scale
    /\ gs_call.rsi = 46 * Scale

\* C10 as stated: FRACO iff |change24h| <= 2, MODERADO iff 2 < |change24h|
\* <= 10, FORTE iff |change24h| > 10, and CALL iff change24h > 0.
C10_TierByChange ==
    gs_call.called =>
        LET c == Abs(gs_call.change)
        IN  /\ (result.tier = "FRACO") <=> (c <= 2 * Scale)
            /\ (result.tier = "MODERADO") <=> (c > 2 * Scale /\ c <= 10 * Scale)
            /\ (result.tier = "FORTE") <=> (c > 10 * Scale)
            /\ result.tier # "FRACO" =>
                  ((result.signal.direction = "CALL") <=> (gs_call.change > 0))

\* C10 amended: FRACO iff |change24h| <= 2; 2 < |change24h| <= 10 gives
\* MODERADO; change24h > 10 gives FORTE; change24h < -10 gives FORTE unless
\* 50 - 2 * change24h rounds to exactly 70, which happens only within one
\* rounding error of -10 and gives MODERADO; CALL iff change24h > 0.
C10_TierByChangeRounded ==
    gs_call.called =>
        LET c == Abs(gs_call.change)
        IN  /\ (result.tier = "FRACO") <=> (c <= 2 * Scale)
            /\ (c > 2 * Scale /\ c <= 10 * Scale) => result.tier = "MODERADO"
            /\ gs_call.change > 10 * Scale => result.tier = "FORTE"
            /\ (gs_call.change < 0 - 10 * Scale /\ result.tier # "FORTE") =>
                  /\ result.tier = "MODERADO"
                  /\ gs_call.rsi = 70 * Scale
                  /\ 2 * (c - 10 * Scale) <= RoundingError
            /\ result.tier # "FRACO" =>
                  ((result.signal.direction = "CALL") <=> (gs_call.change > 0))

\* C10 witness: a fall just beyond 10% whose rsi rounds to 70 stays MODERADO
C10_Witness ==
    /\ pc = "done" /\ gs_call.called
    /\ gs_call.change < 0 - 10 * Scale
    /\ result.tier = "MODERADO"
    /\ result.signal.direction = "PUT"

====
